---- MODULE Spec2Model ----
(***************************************************************************)
(* Model of osmoinplace (src/src/main.rs): the directory state manager     *)
(* (backup / restore), the snapshot pipeline (download_mainnet_state) and  *)
(* the process supervisor (start_sync, start_in_place_testnet,             *)
(* start_standalone) composed by run_cmd.                                  *)
(***************************************************************************)
EXTENDS Integers, Sequences, FiniteSets, TLC

VARIABLES fs, last, prev, nops,
          cmd, pc, result, procs, seen, on_ready_executed, ready_runs, trace, dl

fsvars == <<fs, last, prev, nops>>
runvars == <<cmd, pc, result, procs, seen, on_ready_executed, ready_runs, trace, dl>>
vars == <<fs, last, prev, nops,
          cmd, pc, result, procs, seen, on_ready_executed, ready_runs, trace, dl>>

(* ------------------------------ bounds --------------------------------- *)
MaxDepth == 2
MaxEntries == 2
MaxOps == 2
MaxLines == 3
MaxChunks == 2

(* --------------------------- the file system --------------------------- *)
(* A file system is a set of entries; a path is a sequence of names.       *)
Names == {"a", "b"}
FileData == {<<>>, <<1>>}
HomeDirs == {<<"home">>, <<"alt">>}
BackupPaths == {<<"bak">>, <<"home">>}

Dir(p) == [path |-> p, kind |-> "dir", data |-> <<>>]
File(p, d) == [path |-> p, kind |-> "file", data |-> d]

RECURSIVE RelPaths(_)
RelPaths(n) ==
    IF n = 0 THEN {<<>>}
    ELSE LET shorter == RelPaths(n - 1)
         IN  shorter \cup {Append(p, x) : p \in {q \in shorter : Len(q) = n - 1}, x \in Names}

Parent(p) == SubSeq(p, 1, Len(p) - 1)

exists(f, p) == \E e \in f : e.path = p
is_dir(f, p) == \E e \in f : e.path = p /\ e.kind = "dir"
is_file(f, p) == \E e \in f : e.path = p /\ e.kind = "file"

starts_with(p, base) == Len(base) <= Len(p) /\ SubSeq(p, 1, Len(base)) = base
strip_prefix(p, base) == SubSeq(p, Len(base) + 1, Len(p))

(* the entries a tree rooted at r can be extended with *)
Candidates(r, t) ==
    {e \in {Dir(r \o q) : q \in RelPaths(MaxDepth) \ {<<>>}}
           \cup {File(r \o q, d) : q \in RelPaths(MaxDepth) \ {<<>>}, d \in FileData} :
        ~exists(t, e.path) /\ is_dir(t, Parent(e.path))}

RECURSIVE TreesAt(_, _)
TreesAt(r, n) ==
    IF n = 0 THEN {{Dir(r)}}
    ELSE LET smaller == TreesAt(r, n - 1)
         IN  smaller \cup UNION {{t \cup {e} : e \in Candidates(r, t)} : t \in smaller}

(* the tree below p, with paths made relative to p *)
Subtree(f, p) ==
    {[path |-> strip_prefix(e.path, p), kind |-> e.kind, data |-> e.data] :
        e \in {x \in f : starts_with(x.path, p)}}

(* std::fs::remove_dir_all *)
remove_dir_all(f, p) == {e \in f : ~starts_with(e.path, p)}

(* std::fs::create_dir_all: the directory and every missing ancestor *)
create_all(f, p) ==
    f \cup {Dir(SubSeq(p, 1, k)) : k \in {j \in 1..Len(p) : ~exists(f, SubSeq(p, 1, j))}}

(* fs_extra::dir::copy with CopyOptions::new().copy_inside(true), as the   *)
(* library computes it: the target is `to` itself when `to` does not exist *)
(* and to/<name of from> when it does; directories are created first, then *)
(* files are copied without overwrite.                                     *)
dir_copy_target(f, from, to, copy_inside, content_only) ==
    IF (exists(f, to) \/ ~copy_inside) /\ ~content_only
    THEN Append(to, from[Len(from)])
    ELSE to

dir_copy(f, from, to, copy_inside) ==
    IF ~exists(f, from) THEN [rc |-> "NotFound", fs |-> f]
    ELSE IF ~is_dir(f, from) THEN [rc |-> "InvalidFolder", fs |-> f]
    ELSE
      LET target == dir_copy_target(f, from, to, copy_inside, FALSE)
          content == {e \in f : starts_with(e.path, from)}
          dst(e) == target \o strip_prefix(e.path, from)
          dirs == {e \in content : e.kind = "dir"}
          files == {e \in content : e.kind = "file"}
          madeDirs == UNION {{Dir(SubSeq(dst(e), 1, k)) : k \in 1..Len(dst(e))} : e \in dirs}
          blocked == \E d \in madeDirs : is_file(f, d.path)
          withDirs == f \cup {d \in madeDirs : ~exists(f, d.path)}
          clash == {e \in files : exists(withDirs, dst(e))}
          copied == {File(dst(e), e.data) : e \in files \ clash}
      IN  IF blocked THEN [rc |-> "AlreadyExists", fs |-> f]
          ELSE IF clash # {} THEN [rc |-> "AlreadyExists", fs |-> withDirs \cup copied]
          ELSE [rc |-> "Ok", fs |-> withDirs \cup copied]

(* ----------------------- directory state manager ----------------------- *)
(* variant: the existing backup directory is not removed before the copy *)
backup_keep_old(f, osmosis_home, backup_path) ==
    dir_copy(f, osmosis_home, backup_path, TRUE)

(* variant: the home directory is removed only when the backup exists *)
restore_gated(f, osmosis_home, backup_path) ==
    LET cleaned == IF exists(f, osmosis_home) /\ exists(f, backup_path)
                   THEN remove_dir_all(f, osmosis_home) ELSE f
    IN  dir_copy(cleaned, backup_path, osmosis_home, TRUE)

(* backup(osmosis_home, path): remove the backup path if it exists, then   *)
(* copy the home directory to it.                                          *)
backup(f, osmosis_home, backup_path) ==
    LET cleaned == IF exists(f, backup_path) THEN remove_dir_all(f, backup_path) ELSE f
    IN  dir_copy(cleaned, osmosis_home, backup_path, TRUE)

(* restore(osmosis_home, path): remove the home directory if it exists,    *)
(* then copy the backup path to it.                                        *)
restore(f, osmosis_home, backup_path) ==
    LET cleaned == IF exists(f, osmosis_home) THEN remove_dir_all(f, osmosis_home) ELSE f
    IN  dir_copy(cleaned, backup_path, osmosis_home, TRUE)

Op(name, src, dst, rc, pre) == [op |-> name, src |-> src, dst |-> dst, rc |-> rc, pre |-> pre]
NoOp == Op("none", <<>>, <<>>, "Ok", {})

(* ------------------------------ node output ---------------------------- *)
(* A line is a sequence of words; a marker is a sequence of words and a    *)
(* line contains it when the marker occurs in it contiguously.             *)
ReadyMarker == <<"indexed", "block", "events">>
ConsensusMarker == <<"CONSENSUS", "FAILURE!!!">>

contains(line, marker) ==
    \E i \in 1..Len(line) : i + Len(marker) - 1 <= Len(line)
                            /\ SubSeq(line, i, i + Len(marker) - 1) = marker

Lines == { <<"indexed", "block", "height=1">>,
           <<"INF", "indexed", "block", "events", "height=1">>,
           <<"panic:", "CONSENSUS", "FAILURE!!!">>,
           <<"indexed", "block", "events", "CONSENSUS", "FAILURE!!!">> }

(* what one read of the child's stdout yields *)
Reads == [kind : {"line"}, line : Lines]
            \cup {[kind |-> "eof", line |-> <<>>], [kind |-> "err", line |-> <<>>]}

(* outcome of `sh -c on_ready`: spawn()? , wait()? , status.success() *)
OnReadyOutcomes == {"spawn_err", "wait_err", "nonzero", "success"}

(* ------------------------------ command line --------------------------- *)
Home == <<"home">>
BackupPath == <<"bak">>

Cli(name, stop, download, uh, nb, onr, found) ==
    [name |-> name, stop_on_first_indexed_block_events |-> stop,
     download_mainnet_state |-> download, upgrade_handler |-> uh,
     new_osmosisd_bin |-> nb, on_ready |-> onr, osmosisd_found |-> found]

Commands ==
    {Cli(n, FALSE, FALSE, FALSE, FALSE, FALSE, f) :
        n \in {"DownloadMainnetState", "Backup", "Restore"}, f \in BOOLEAN}
    \cup {Cli("StartSync", s, FALSE, FALSE, FALSE, FALSE, f) : s \in BOOLEAN, f \in BOOLEAN}
    \cup {Cli("StartInPlaceTestnet", FALSE, FALSE, uh, nb, onr, f) :
            uh \in BOOLEAN, nb \in BOOLEAN, onr \in BOOLEAN, f \in BOOLEAN}
    \cup {Cli("StartStandalone", FALSE, FALSE, FALSE, FALSE, onr, f) :
            onr \in BOOLEAN, f \in BOOLEAN}
    \cup {Cli("MagicStart", FALSE, d, uh, nb, onr, f) :
            d \in BOOLEAN, uh \in BOOLEAN, nb \in BOOLEAN, onr \in BOOLEAN, f \in BOOLEAN}

(* argument lists of the spawned node processes *)
start_args == <<"start", "--home", "home">>

start_node_no_peers ==
    <<"start", "--home", "home", "--p2p.persistent_peers", "", "--p2p.seeds", "",
      "--rpc.unsafe", "--grpc.enable", "--grpc-web.enable">>

in_place_testnet_args(upgrade_handler) ==
    <<"in-place-testnet", "edgenet", "osmo12smx2wdlyttvyzvzg54y2vnqwq2qjateuf7thj",
      "--home", "home">>
    \o (IF upgrade_handler THEN <<"--trigger-testnet-upgrade", "handler">> ELSE <<>>)

(* ------------------------------ run state ------------------------------ *)
Ev(ev, fn, rc, proc) == [ev |-> ev, fn |-> fn, rc |-> rc, proc |-> proc]
Call(fn) == Ev("call", fn, "Ok", 0)
Ret(fn, rc) == Ev("ret", fn, rc, 0)

Proc(fn, bin, args) == [fn |-> fn, bin |-> bin, args |-> args, state |-> "running"]

child == Len(procs)
SetChild(st) == [procs EXCEPT ![child].state = st]

NoDownload ==
    [content_length |-> "unknown", total_size |-> 0, downloaded_bytes |-> 0,
     temp_file |-> "none", temp |-> <<>>, chunks |-> 0, extract |-> "no",
     received |-> <<>>, stream_end |-> FALSE]

InitRun(c) ==
    /\ cmd = c
    /\ pc = "run_cmd"
    /\ result = "running"
    /\ procs = <<>>
    /\ seen = <<>>
    /\ on_ready_executed = FALSE
    /\ ready_runs = <<>>
    /\ trace = <<>>
    /\ dl = NoDownload

(* run_cmd: the function that runs after fn returned rc, "" when the      *)
(* command is over: every call is followed by `?`, and only magic-start    *)
(* calls a second and a third function                                     *)
next_stage_ignoring_err(name, fn, rc) ==
    IF name = "MagicStart" /\ fn \in {"download_mainnet_state", "restore"} THEN "start_sync"
    ELSE IF name = "MagicStart" /\ fn = "start_sync" THEN "start_in_place_testnet"
    ELSE ""

next_stage(name, fn, rc) ==
    IF rc # "Ok" THEN ""
    ELSE IF name = "MagicStart" /\ fn \in {"download_mainnet_state", "restore"} THEN "start_sync"
    ELSE IF name = "MagicStart" /\ fn = "start_sync" THEN "start_in_place_testnet"
    ELSE ""

EntryPc(fn) ==
    CASE fn = "download_mainnet_state" -> "dl:wipe"
      [] fn = "backup" -> "backup"
      [] fn = "restore" -> "restore"
      [] fn = "start_sync" -> "sync:spawn"
      [] fn = "start_in_place_testnet" -> "testnet:spawn"
      [] fn = "start_standalone" -> "standalone:spawn"

(* fn returns rc after appending events to the trace *)
Return(fn, rc, events) ==
    LET next == next_stage(cmd.name, fn, rc)
        nested == fn = "start_standalone" /\ cmd.name # "StartStandalone"
    IN  IF next # ""
        THEN /\ pc' = EntryPc(next)
             /\ result' = result
             /\ trace' = trace \o events \o <<Ret(fn, rc), Call(next)>>
        ELSE /\ pc' = "done"
             /\ result' = rc
             /\ trace' = trace \o events \o <<Ret(fn, rc)>>
                         \o (IF nested THEN <<Ret("start_in_place_testnet", rc)>> ELSE <<>>)

(* ------------------------------ run_cmd -------------------------------- *)
first_call(c) ==
    CASE c.name = "DownloadMainnetState" -> "download_mainnet_state"
      [] c.name = "Backup" -> "backup"
      [] c.name = "Restore" -> "restore"
      [] c.name = "StartSync" -> "start_sync"
      [] c.name = "StartInPlaceTestnet" -> "start_in_place_testnet"
      [] c.name = "StartStandalone" -> "start_standalone"
      [] c.name = "MagicStart" ->
            IF c.download_mainnet_state THEN "download_mainnet_state" ELSE "restore"

RunCmd ==
    /\ pc = "run_cmd"
    /\ IF ~cmd.osmosisd_found
       THEN /\ pc' = "done"
            /\ result' = "Err"
            /\ trace' = trace
       ELSE /\ pc' = EntryPc(first_call(cmd))
            /\ result' = result
            /\ trace' = Append(trace, Call(first_call(cmd)))
    /\ UNCHANGED <<fsvars, cmd, procs, seen, on_ready_executed, ready_runs, dl>>

RunBackup ==
    /\ pc = "backup"
    /\ LET r == backup(fs, Home, BackupPath)
       IN  /\ fs' = r.fs
           /\ prev' = last
           /\ last' = Op("backup", Home, BackupPath, r.rc, fs)
           /\ Return("backup", IF r.rc = "Ok" THEN "Ok" ELSE "Err", <<>>)
    /\ UNCHANGED <<nops, cmd, procs, seen, on_ready_executed, ready_runs, dl>>

RunRestore ==
    /\ pc = "restore"
    /\ LET r == restore(fs, Home, BackupPath)
       IN  /\ fs' = r.fs
           /\ prev' = last
           /\ last' = Op("restore", BackupPath, Home, r.rc, fs)
           /\ Return("restore", IF r.rc = "Ok" THEN "Ok" ELSE "Err", <<>>)
    /\ UNCHANGED <<nops, cmd, procs, seen, on_ready_executed, ready_runs, dl>>

(* --------------------------- snapshot pipeline ------------------------- *)
GenesisPath == Home \o <<"config", "genesis.json">>
StatePath == Home \o <<"data", "state.db">>

(* std::fs::write: replaces the file; fails when the parent is missing *)
write_file(f, p, d) == {e \in f : e.path # p} \cup {File(p, d)}

(* what a successful `osmosisd init` leaves in the home directory *)
init_layout(f) ==
    write_file(create_all(create_all(f, Home \o <<"config">>), Home \o <<"data">>),
               GenesisPath, <<0>>)

(* a chunk of the response body: the archive entries it carries *)
Chunks == {<<"state">>, <<"genesis", "state">>}

ArchiveFile(id) ==
    IF id = "genesis" THEN File(GenesisPath, <<2>>) ELSE File(StatePath, <<3>>)

(* variant: an entry whose file already exists is skipped *)
RECURSIVE unpack_keep_existing(_, _)
unpack_keep_existing(f, entries) ==
    IF entries = <<>> THEN create_all(f, Home)
    ELSE LET e == ArchiveFile(entries[Len(entries)])
             before == unpack_keep_existing(f, SubSeq(entries, 1, Len(entries) - 1))
         IN  IF exists(before, e.path) THEN before
             ELSE write_file(create_all(before, Parent(e.path)), e.path, e.data)

(* tar::Archive::unpack: entries are written in order over what is there *)
RECURSIVE unpack(_, _)
unpack(f, entries) ==
    IF entries = <<>> THEN create_all(f, Home)
    ELSE LET e == ArchiveFile(entries[Len(entries)])
             before == unpack(f, SubSeq(entries, 1, Len(entries) - 1))
         IN  write_file(create_all(before, Parent(e.path)), e.path, e.data)

(* content_length().ok_or_else(..)?: <<>> is None, <<n>> is Some(n) *)
size_check_skipped(content_length) == "Ok"

size_check(content_length) == IF content_length = <<>> THEN "Err" ELSE "Ok"

DlEv(ev, rc) == Ev(ev, "download_mainnet_state", rc, 0)

DlFail(events) ==
    /\ Return("download_mainnet_state", "Err", events)
    /\ UNCHANGED <<cmd, procs, seen, on_ready_executed, ready_runs>>

DlStep(next, events) ==
    /\ pc' = next
    /\ trace' = trace \o events
    /\ UNCHANGED <<cmd, result, procs, seen, on_ready_executed, ready_runs>>

(* lines 191-201 *)
DlWipe ==
    /\ pc = "dl:wipe"
    /\ UNCHANGED <<last, prev, nops, dl>>
    /\ IF exists(fs, Home)
       THEN \E ok \in BOOLEAN :
              IF ok THEN fs' = remove_dir_all(fs, Home) /\ DlStep("dl:init", <<DlEv("wipe", "Ok")>>)
              ELSE fs' = fs /\ DlFail(<<DlEv("wipe", "Err")>>)
       ELSE fs' = fs /\ DlStep("dl:init", <<>>)

(* lines 203-217: only a failure to launch is an error, the exit status of *)
(* init is not looked at                                                   *)
DlInit ==
    /\ pc = "dl:init"
    /\ UNCHANGED <<last, prev, nops, dl>>
    /\ \E o \in {"spawn_err", "nonzero", "success"} :
         CASE o = "spawn_err" -> fs' = fs /\ DlFail(<<>>)
           [] o = "nonzero" -> fs' = fs /\ DlStep("dl:genesis", <<DlEv("init", "nonzero")>>)
           [] o = "success" -> fs' = init_layout(fs)
                               /\ DlStep("dl:genesis", <<DlEv("init", "Ok")>>)

(* lines 219-233 *)
DlGenesis ==
    /\ pc = "dl:genesis"
    /\ UNCHANGED <<last, prev, nops, dl>>
    /\ \E got \in BOOLEAN :
         IF got /\ is_dir(fs, Parent(GenesisPath))
         THEN fs' = write_file(fs, GenesisPath, <<1>>)
              /\ DlStep("dl:url", <<DlEv("genesis", "Ok")>>)
         ELSE fs' = fs /\ DlFail(<<DlEv("genesis", "Err")>>)

(* lines 235-243 *)
DlUrl ==
    /\ pc = "dl:url"
    /\ UNCHANGED <<fsvars, dl>>
    /\ \E got \in BOOLEAN :
         IF got THEN DlStep("dl:fetch", <<>>) ELSE DlFail(<<>>)

(* lines 245-251 *)
DlFetch ==
    /\ pc = "dl:fetch"
    /\ UNCHANGED fsvars
    /\ \E got \in BOOLEAN, cl \in {<<>>} \cup {<<n>> : n \in 0..MaxChunks} :
         IF ~got THEN dl' = dl /\ DlFail(<<>>)
         ELSE IF size_check(cl) = "Err"
         THEN dl' = [dl EXCEPT !.content_length = IF cl = <<>> THEN "none" ELSE "some"]
              /\ DlFail(<<DlEv("fetch", "Err")>>)
         ELSE /\ dl' = [dl EXCEPT !.content_length = IF cl = <<>> THEN "none" ELSE "some",
                                  !.total_size = IF cl = <<>> THEN 0 ELSE cl[1]]
              /\ DlStep("dl:tempfile", <<DlEv("fetch", "Ok")>>)

(* lines 260-264 *)
DlTempfile ==
    /\ pc = "dl:tempfile"
    /\ UNCHANGED fsvars
    /\ \E ok \in BOOLEAN :
         IF ok THEN dl' = [dl EXCEPT !.temp_file = "open"]
                    /\ DlStep("dl:chunk", <<DlEv("tempfile", "Ok")>>)
         ELSE dl' = dl /\ DlFail(<<DlEv("tempfile", "Err")>>)

(* one chunk arrives: the counter is advanced, then the chunk is written *)
DlReceive(chunk, written) ==
    IF written
    THEN /\ dl' = [dl EXCEPT !.downloaded_bytes = @ + Len(chunk),
                             !.temp = @ \o chunk, !.chunks = @ + 1,
                             !.received = Append(@, Len(chunk))]
         /\ DlStep("dl:chunk", <<>>)
    ELSE /\ dl' = [dl EXCEPT !.downloaded_bytes = @ + Len(chunk), !.chunks = @ + 1,
                             !.received = Append(@, Len(chunk))]
         /\ DlFail(<<DlEv("write", "Err")>>)

(* variant of lines 266-273: the loop also ends once the counter has      *)
(* reached the declared total                                              *)
DlChunkStopsAtTotal ==
    /\ pc = "dl:chunk"
    /\ UNCHANGED fsvars
    /\ \/ \E chunk \in Chunks, written \in BOOLEAN :
            /\ dl.chunks < MaxChunks
            /\ dl.downloaded_bytes < dl.total_size
            /\ DlReceive(chunk, written)
       \/ dl' = dl /\ DlFail(<<DlEv("chunk", "Err")>>)
       \/ dl.downloaded_bytes >= dl.total_size /\ dl' = dl /\ DlStep("dl:extract", <<>>)
       \/ dl' = [dl EXCEPT !.stream_end = TRUE] /\ DlStep("dl:extract", <<>>)

(* lines 266-275: one turn of the loop, or its end when the stream yields *)
(* None                                                                    *)
DlChunk ==
    /\ pc = "dl:chunk"
    /\ UNCHANGED fsvars
    /\ \/ \E chunk \in Chunks, written \in BOOLEAN :
            /\ dl.chunks < MaxChunks
            /\ DlReceive(chunk, written)
       \/ dl' = dl /\ DlFail(<<DlEv("chunk", "Err")>>)
       \/ dl' = [dl EXCEPT !.stream_end = TRUE] /\ DlStep("dl:extract", <<>>)

(* lines 277-289: a failed extraction leaves what was unpacked before it *)
DlExtract ==
    /\ pc = "dl:extract"
    /\ UNCHANGED <<last, prev, nops, cmd, procs, seen, on_ready_executed, ready_runs>>
    /\ \/ /\ fs' = unpack(fs, dl.temp)
          /\ dl' = IF next_stage(cmd.name, "download_mainnet_state", "Ok") # ""
                   THEN NoDownload ELSE [dl EXCEPT !.extract = "done"]
          /\ Return("download_mainnet_state", "Ok", <<DlEv("extract", "Ok")>>)
       \/ \E k \in 0..Len(dl.temp) :
            /\ fs' = IF k = 0 THEN fs ELSE unpack(fs, SubSeq(dl.temp, 1, k))
            /\ dl' = [dl EXCEPT !.extract = "failed"]
            /\ Return("download_mainnet_state", "Err", <<DlEv("extract", "Err")>>)

(* --------------------------- process supervisor ------------------------ *)
(* line 370, variant: the stop flag is not consulted *)
sync_kills_unconditionally(stop, line) == contains(line, ReadyMarker)

(* line 370 *)
sync_kills(stop, line) == stop /\ contains(line, ReadyMarker)

(* lines 413-415, variant: the upgrade handler is not consulted *)
testnet_runs_on_ready_despite_upgrade(on_ready, upgrade_handler, executed, line) ==
    on_ready /\ ~executed

(* lines 413-415: the line itself is not looked at *)
testnet_runs_on_ready(on_ready, upgrade_handler, executed, line) ==
    on_ready /\ upgrade_handler = FALSE /\ ~executed

(* line 426, variant: the wrong marker is looked for *)
testnet_kills_on_ready_marker(line) == contains(line, ReadyMarker)

(* line 426 *)
testnet_kills(line) == contains(line, ConsensusMarker)

(* line 435: only the replacement binary is looked at *)
testnet_hands_off(upgrade_handler, new_osmosisd_bin) == new_osmosisd_bin

(* lines 459-460 *)
standalone_runs_on_ready(on_ready, executed, line) ==
    on_ready /\ ~executed /\ contains(line, ReadyMarker)

(* lines 416-420 and 461-465, variant: the exit status is not looked at *)
on_ready_fails_only_on_io(o) == o \in {"spawn_err", "wait_err"}

(* lines 416-420 and 461-465: spawn()?, wait()?, and !status.success() *)
on_ready_fails(o) == o # "success"

(* lines 422 and 467, variant: the flag is left as it was *)
flag_not_set(executed) == executed

(* lines 422 and 467: on_ready_executed = true *)
flag_after_on_ready(executed) == TRUE

Spawn(fn, bin, args, loop) ==
    /\ UNCHANGED <<fsvars, cmd, dl>>
    /\ \E ok \in BOOLEAN :
         IF ok
         THEN /\ procs' = Append(procs, Proc(fn, bin, args))
              /\ seen' = <<>>
              /\ ready_runs' = <<>>
              /\ on_ready_executed' = FALSE
              /\ pc' = loop
              /\ result' = result
              /\ trace' = Append(trace, Ev("spawn", fn, "Ok", child + 1))
         ELSE /\ Return(fn, "Err", <<Ev("spawn", fn, "Err", 0)>>)
              /\ UNCHANGED <<procs, seen, ready_runs, on_ready_executed>>

CanRead(r) == r.kind = "line" => Len(seen) < MaxLines

(* the rest of one loop turn after the on_ready part: kill and break, or   *)
(* go on reading                                                           *)
KillOrContinue(fn, kills, kill_ok, events, wait) ==
    IF kills
    THEN IF kill_ok
         THEN /\ procs' = SetChild("killed")
              /\ pc' = wait
              /\ result' = result
              /\ trace' = trace \o events \o <<Ev("kill", fn, "Ok", child)>>
         ELSE /\ procs' = procs
              /\ Return(fn, "Err", events \o <<Ev("kill", fn, "Err", child)>>)
    ELSE /\ procs' = procs
         /\ pc' = pc
         /\ result' = result
         /\ trace' = trace \o events

EndOfStream(wait) ==
    /\ procs' = SetChild("exited")
    /\ pc' = wait
    /\ UNCHANGED <<result, trace, seen, on_ready_executed, ready_runs>>

ReadError(fn) ==
    /\ Return(fn, "Err", <<Ev("read", fn, "Err", child)>>)
    /\ UNCHANGED <<procs, seen, on_ready_executed, ready_runs>>

(* the on_ready part of one loop turn; runs says whether the command is    *)
(* launched on this line, o is how it ends, rest is the remainder of the   *)
(* loop body                                                               *)
OnReadyThen(fn, runs, o, kills, kill_ok, wait) ==
    IF runs /\ on_ready_fails(o)
    THEN /\ ready_runs' = IF o = "spawn_err" THEN ready_runs
                          ELSE Append(ready_runs, Len(seen) + 1)
         /\ on_ready_executed' = on_ready_executed
         /\ procs' = procs
         /\ Return(fn, "Err", IF o = "spawn_err" THEN <<>> ELSE <<Ev("on_ready", fn, o, child)>>)
    ELSE /\ ready_runs' = IF runs THEN Append(ready_runs, Len(seen) + 1) ELSE ready_runs
         /\ on_ready_executed' = IF runs THEN flag_after_on_ready(on_ready_executed)
                                 ELSE on_ready_executed
         /\ KillOrContinue(fn, kills, kill_ok,
                           IF runs THEN <<Ev("on_ready", fn, o, child)>> ELSE <<>>, wait)

Wait(fn, handoff) ==
    /\ UNCHANGED <<fsvars, cmd, seen, on_ready_executed, ready_runs, dl>>
    /\ \E ok \in BOOLEAN :
         IF ~ok
         THEN procs' = procs /\ Return(fn, "Err", <<Ev("wait", fn, "Err", child)>>)
         ELSE /\ procs' = SetChild("reaped")
              /\ IF handoff
                 THEN /\ pc' = EntryPc("start_standalone")
                      /\ result' = result
                      /\ trace' = trace \o <<Ev("wait", fn, "Ok", child), Call("start_standalone")>>
                 ELSE Return(fn, "Ok", <<Ev("wait", fn, "Ok", child)>>)

(* start_sync, lines 351-380 *)
stop_flag == IF cmd.name = "MagicStart" THEN TRUE ELSE cmd.stop_on_first_indexed_block_events

SyncSpawn == pc = "sync:spawn" /\ Spawn("start_sync", "osmosisd", start_args, "sync:loop")

SyncLine ==
    /\ pc = "sync:loop"
    /\ UNCHANGED <<fsvars, cmd, dl>>
    /\ \E r \in Reads, kill_ok \in BOOLEAN :
         /\ CanRead(r)
         /\ CASE r.kind = "err" -> ReadError("start_sync")
              [] r.kind = "eof" -> EndOfStream("sync:wait")
              [] r.kind = "line" ->
                   /\ seen' = Append(seen, r.line)
                   /\ UNCHANGED <<on_ready_executed, ready_runs>>
                   /\ KillOrContinue("start_sync", sync_kills(stop_flag, r.line), kill_ok,
                                     <<>>, "sync:wait")

(* variant of line 377: start_sync returns without child.wait() *)
SyncWaitSkipped ==
    /\ pc = "sync:wait"
    /\ Return("start_sync", "Ok", <<>>)
    /\ UNCHANGED <<fsvars, cmd, procs, seen, on_ready_executed, ready_runs, dl>>

SyncWait == pc = "sync:wait" /\ Wait("start_sync", FALSE)

(* start_in_place_testnet, lines 382-440 *)
TestnetSpawn ==
    /\ pc = "testnet:spawn"
    /\ Spawn("start_in_place_testnet", "osmosisd",
             in_place_testnet_args(cmd.upgrade_handler), "testnet:loop")

TestnetLine ==
    /\ pc = "testnet:loop"
    /\ UNCHANGED <<fsvars, cmd, dl>>
    /\ \E r \in Reads, o \in OnReadyOutcomes, kill_ok \in BOOLEAN :
         /\ CanRead(r)
         /\ CASE r.kind = "err" -> ReadError("start_in_place_testnet")
              [] r.kind = "eof" -> EndOfStream("testnet:wait")
              [] r.kind = "line" ->
                   /\ seen' = Append(seen, r.line)
                   /\ OnReadyThen("start_in_place_testnet",
                                  testnet_runs_on_ready(cmd.on_ready, cmd.upgrade_handler,
                                                        on_ready_executed, r.line),
                                  o, testnet_kills(r.line), kill_ok, "testnet:wait")

TestnetWait ==
    /\ pc = "testnet:wait"
    /\ Wait("start_in_place_testnet",
            testnet_hands_off(cmd.upgrade_handler, cmd.new_osmosisd_bin))

(* start_standalone, lines 442-476 *)
standalone_bin == IF cmd.name = "StartStandalone" THEN "osmosisd" ELSE "new_osmosisd_bin"

StandaloneSpawn ==
    /\ pc = "standalone:spawn"
    /\ Spawn("start_standalone", standalone_bin, start_node_no_peers, "standalone:loop")

(* variant of lines 456-470: the consensus-failure test of the testnet    *)
(* loop is applied here too                                               *)
StandaloneLineKills ==
    /\ pc = "standalone:loop"
    /\ UNCHANGED <<fsvars, cmd, dl>>
    /\ \E r \in Reads, o \in OnReadyOutcomes, kill_ok \in BOOLEAN :
         /\ CanRead(r)
         /\ CASE r.kind = "err" -> ReadError("start_standalone")
              [] r.kind = "eof" -> EndOfStream("standalone:wait")
              [] r.kind = "line" ->
                   /\ seen' = Append(seen, r.line)
                   /\ OnReadyThen("start_standalone",
                                  standalone_runs_on_ready(cmd.on_ready, on_ready_executed, r.line),
                                  o, testnet_kills(r.line), kill_ok, "standalone:wait")

StandaloneLine ==
    /\ pc = "standalone:loop"
    /\ UNCHANGED <<fsvars, cmd, dl>>
    /\ \E r \in Reads, o \in OnReadyOutcomes :
         /\ CanRead(r)
         /\ CASE r.kind = "err" -> ReadError("start_standalone")
              [] r.kind = "eof" -> EndOfStream("standalone:wait")
              [] r.kind = "line" ->
                   /\ seen' = Append(seen, r.line)
                   /\ OnReadyThen("start_standalone",
                                  standalone_runs_on_ready(cmd.on_ready, on_ready_executed, r.line),
                                  o, FALSE, TRUE, "standalone:wait")

StandaloneWait == pc = "standalone:wait" /\ Wait("start_standalone", FALSE)

(* ------------------------------ one command ---------------------------- *)
SmallHome == {Dir(Home), File(Home \o <<"a">>, <<1>>)}
SmallBackup == {Dir(BackupPath), File(BackupPath \o <<"b">>, <<>>)}

(* the directories a command starts from: those that backup, restore and  *)
(* download read or remove may be there or not; magic-start begins with   *)
(* a home directory, with or without a backup to restore; the supervisor  *)
(* commands do not touch them                                             *)
StartDirs(c) ==
    IF c.name \in {"Backup", "Restore"}
    THEN {h \cup b : h \in {{}, SmallHome}, b \in {{}, SmallBackup}}
    ELSE IF c.name = "DownloadMainnetState" THEN {{}, SmallHome}
    ELSE IF c.name = "MagicStart" /\ ~c.download_mainnet_state
    THEN {SmallHome, SmallHome \cup SmallBackup}
    ELSE {SmallHome}

Init ==
    /\ \E c \in Commands :
          /\ InitRun(c)
          /\ fs \in StartDirs(c)
    /\ last = NoOp
    /\ prev = NoOp
    /\ nops = 0

Next ==
    \/ RunCmd \/ RunBackup \/ RunRestore
    \/ DlWipe \/ DlInit \/ DlGenesis \/ DlUrl \/ DlFetch \/ DlTempfile \/ DlChunk \/ DlExtract
    \/ SyncSpawn \/ SyncLine \/ SyncWait
    \/ TestnetSpawn \/ TestnetLine \/ TestnetWait
    \/ StandaloneSpawn \/ StandaloneLine \/ StandaloneWait

Spec == Init /\ [][Next]_vars

(* ------------------------- repeated backup / restore ------------------- *)
(* what an earlier run may have left at r: nothing, or one of two trees *)
OldTrees(r) ==
    { {},
      {Dir(r), File(r \o <<"b">>, <<>>)},
      {Dir(r), Dir(r \o <<"a">>), File(r \o <<"a", "b">>, <<1>>)} }

(* the data directory holds any bounded tree or is missing; the backup     *)
(* path and the alternative home hold an older tree or nothing             *)
InitFS ==
    /\ \E h \in TreesAt(<<"home">>, MaxEntries) \cup {{}},
          b \in OldTrees(<<"bak">>),
          a \in OldTrees(<<"alt">>) :
            fs = h \cup b \cup a
    /\ last = NoOp
    /\ prev = NoOp
    /\ nops = 0
    /\ InitRun(Cli("Backup", FALSE, FALSE, FALSE, FALSE, FALSE, TRUE))

BackupCmd ==
    \E h \in HomeDirs, p \in BackupPaths :
        LET r == backup(fs, h, p)
        IN  /\ nops < MaxOps
            /\ fs' = r.fs
            /\ prev' = last
            /\ last' = Op("backup", h, p, r.rc, fs)
            /\ nops' = nops + 1
            /\ UNCHANGED runvars

RestoreCmd ==
    \E h \in HomeDirs, p \in BackupPaths :
        LET r == restore(fs, h, p)
        IN  /\ nops < MaxOps
            /\ fs' = r.fs
            /\ prev' = last
            /\ last' = Op("restore", p, h, r.rc, fs)
            /\ nops' = nops + 1
            /\ UNCHANGED runvars

NextFS == BackupCmd \/ RestoreCmd

SpecFS == InitFS /\ [][NextFS]_vars

(* ------------------------ supervisor properties ------------------------ *)
InRun(fn) == child > 0 /\ procs[child].fn = fn

(* positions in the trace of the events ev about process p *)
At(ev, p) == {i \in DOMAIN trace : trace[i].ev = ev /\ trace[i].proc = p}
AtOk(ev, p) == {i \in At(ev, p) : trace[i].rc = "Ok"}

(* the supervisor has called kill on process p *)
Killed(p) == At("kill", p) # {}

(* the lines of the current run that contain the marker *)
Matches(marker) == {i \in DOMAIN seen : contains(seen[i], marker)}

(* i is the first line of the current run that contains the marker *)
FirstMatch(i, marker) == i \in Matches(marker) /\ \A j \in Matches(marker) : i <= j

Ended == pc = "done"

TraceHasRead == \E i \in DOMAIN trace : trace[i].ev = "read"

(* C1: in a start_sync run with the stop flag set, kill is called on the   *)
(* node process exactly when a consumed line contains "indexed block       *)
(* events", and that line is the first such line and the last one read;    *)
(* with the flag unset kill is never called and the process is never in    *)
(* the killed state.                                                       *)
C1_SyncKillIffMarker ==
    InRun("start_sync") =>
        IF stop_flag
        THEN /\ Killed(child) <=> Matches(ReadyMarker) # {}
             /\ Killed(child) => FirstMatch(Len(seen), ReadyMarker)
             /\ procs[child].state = "killed" => Killed(child)
        ELSE ~Killed(child) /\ procs[child].state # "killed"

C1_Witness ==
    /\ InRun("start_sync") /\ cmd.name = "StartSync" /\ stop_flag
    /\ procs[child].state = "killed"
    /\ Len(seen) = 3

(* C2: in one run of start_standalone or start_in_place_testnet the        *)
(* on_ready command is executed at most once.                              *)
C2_OnReadyAtMostOncePerRun ==
    (InRun("start_standalone") \/ InRun("start_in_place_testnet")) => Len(ready_runs) <= 1

C2_Witness ==
    /\ InRun("start_standalone")
    /\ Len(ready_runs) = 1
    /\ on_ready_executed
    /\ \E i \in Matches(ReadyMarker) : i > ready_runs[1]

Upgrade ==
    /\ cmd.name \in {"StartInPlaceTestnet", "MagicStart"}
    /\ cmd.upgrade_handler /\ cmd.new_osmosisd_bin

(* C3: in-place testnet with upgrade handler and replacement binary.  In   *)
(* the first run a line with "CONSENSUS FAILURE!!!" is the last line read  *)
(* and kill is called on it; the replacement process is spawned only       *)
(* after the first process was waited for (and after the kill), from the   *)
(* replacement binary with empty persistent-peers and seeds lists;         *)
(* on_ready is never executed in the first run, and in the second run it   *)
(* is executed on the first ready-marker line and on no other line.        *)
C3_UpgradeHandoff ==
    Upgrade =>
        /\ InRun("start_in_place_testnet") =>
              /\ Matches(ConsensusMarker) # {} =>
                    Killed(child) /\ FirstMatch(Len(seen), ConsensusMarker)
              /\ ready_runs = <<>>
        /\ \A i \in DOMAIN trace :
              trace[i].ev = "on_ready" => trace[i].fn = "start_standalone"
        /\ InRun("start_standalone") =>
              /\ procs[child].bin = "new_osmosisd_bin"
              /\ contains(procs[child].args, <<"start">>)
              /\ contains(procs[child].args, <<"--p2p.persistent_peers", "">>)
              /\ contains(procs[child].args, <<"--p2p.seeds", "">>)
              /\ procs[child - 1].state = "reaped"
              /\ \A s \in At("spawn", child) :
                    /\ \E w \in AtOk("wait", child - 1) : w < s
                    /\ \A k \in At("kill", child - 1) :
                          \E w \in AtOk("wait", child - 1) : k < w /\ w < s
              /\ \A n \in 1..Len(ready_runs) : FirstMatch(ready_runs[n], ReadyMarker)
              /\ (cmd.on_ready /\ Matches(ReadyMarker) # {}) =>
                    (ready_runs # <<>> \/ (Ended /\ result = "Err"))

C3_Witness ==
    /\ Upgrade /\ cmd.on_ready
    /\ InRun("start_standalone")
    /\ Killed(child - 1)
    /\ Len(ready_runs) = 1 /\ ready_runs[1] = 2

NonZero == {i \in DOMAIN trace : trace[i].ev = "on_ready" /\ trace[i].rc = "nonzero"}

(* C12: when the on_ready command exits non-zero the command ends with an *)
(* error at once: the line it ran on is the last line read, the           *)
(* on_ready_executed flag stays unset, only error returns follow in the   *)
(* trace and no further process is spawned.                               *)
C12_OnReadyFailureIsFatal ==
    \A i \in NonZero :
        /\ Ended /\ result = "Err"
        /\ ~on_ready_executed
        /\ trace[i].proc = child
        /\ ready_runs # <<>> /\ ready_runs[Len(ready_runs)] = Len(seen)
        /\ \A j \in DOMAIN trace : j > i => trace[j].ev = "ret" /\ trace[j].rc = "Err"
        /\ procs[child].state = "running"

C12_Witness ==
    /\ NonZero # {}
    /\ cmd.name = "StartInPlaceTestnet" /\ cmd.new_osmosisd_bin
    /\ InRun("start_in_place_testnet")
    /\ Ended /\ result = "Err"

SupervisorFns == {"start_sync", "start_in_place_testnet", "start_standalone"}
WaitPcs == {"sync:wait", "testnet:wait", "standalone:wait"}

(* C13: the supervisor reaches its wait only with a process that was      *)
(* killed or whose output ended, a successful kill is followed directly   *)
(* by the wait on that process, and whenever a supervisor function        *)
(* returns Ok its process has been waited for before and is reaped.       *)
C13_WaitBeforeOkReturn ==
    /\ pc \in WaitPcs => procs[child].state \in {"killed", "exited"}
    /\ \A p \in DOMAIN procs : \A k \in AtOk("kill", p) :
          IF k = Len(trace) THEN pc \in WaitPcs /\ p = child
          ELSE trace[k + 1].ev = "wait" /\ trace[k + 1].proc = p
    /\ \A i \in DOMAIN trace :
          (trace[i].ev = "ret" /\ trace[i].rc = "Ok" /\ trace[i].fn \in SupervisorFns) =>
              \E p \in DOMAIN procs :
                 /\ procs[p].fn = trace[i].fn
                 /\ procs[p].state = "reaped"
                 /\ \E w \in AtOk("wait", p) : w < i

C13_Witness ==
    /\ cmd.name = "StartSync"
    /\ Ended /\ result = "Ok"
    /\ AtOk("kill", 1) # {}
    /\ procs[1].state = "reaped"

TestnetWaits(p) == {w \in AtOk("wait", p) : procs[p].fn = "start_in_place_testnet"}

OnReadyFailedOnLastLine ==
    /\ Ended /\ result = "Err"
    /\ cmd.on_ready /\ ~cmd.upgrade_handler /\ ~on_ready_executed
    /\ ~TraceHasRead

Standalones == {p \in DOMAIN procs : procs[p].fn = "start_standalone"}

(* C16: start_standalone, called directly or after the handoff, never     *)
(* calls kill on its process whatever the lines are; it reaches its wait  *)
(* only when the output has ended, and it has ended either with an error  *)
(* or after the process was waited for.                                   *)
C16_StandaloneNeverKills ==
    /\ \A p \in Standalones : ~Killed(p) /\ procs[p].state # "killed"
    /\ pc = "standalone:wait" => procs[child].state = "exited"
    /\ \A i \in DOMAIN trace :
          trace[i] = Ret("start_standalone", "Ok") =>
              \E p \in Standalones :
                  procs[p].state = "reaped" /\ \E w \in AtOk("wait", p) : w < i
    /\ (Ended /\ InRun("start_standalone")) =>
          (result = "Err" \/ procs[child].state = "reaped")

C16_Witness ==
    /\ cmd.name = "StartInPlaceTestnet"
    /\ InRun("start_standalone")
    /\ Matches(ConsensusMarker) # {} /\ Matches(ReadyMarker) # {}
    /\ Len(seen) = 3
    /\ Ended /\ result = "Ok"

(* C4 (as claimed): in-place testnet without upgrade handler executes      *)
(* on_ready only on the first line that contains the ready marker.         *)
C4_TestnetOnReadyOnMarker ==
    (InRun("start_in_place_testnet") /\ ~cmd.upgrade_handler /\ cmd.on_ready) =>
        \A n \in 1..Len(ready_runs) : FirstMatch(ready_runs[n], ReadyMarker)

(* C5 (as claimed): inside start_in_place_testnet a second process is      *)
(* spawned only when both an upgrade handler and a replacement binary      *)
(* were given.                                                             *)
C5_HandoffNeedsUpgradeHandler ==
    (cmd.name \in {"StartInPlaceTestnet", "MagicStart"} /\ InRun("start_standalone")) =>
        (cmd.upgrade_handler /\ cmd.new_osmosisd_bin)

(* C17 (as claimed): when the command has ended, by an Ok or by an error  *)
(* return, every node process it spawned has been waited for.             *)
C17_NoProcessLeftBehind ==
    Ended => \A p \in DOMAIN procs : procs[p].state = "reaped"

OnReadyRuns == {i \in DOMAIN trace : trace[i].ev = "on_ready"}

(* C18 (as claimed): over one start_in_place_testnet call, the first run  *)
(* and the run after the handoff together, on_ready is executed at most   *)
(* once.                                                                  *)
C18_OnReadyAtMostOnceOverall ==
    cmd.name \in {"StartInPlaceTestnet", "MagicStart"} => Cardinality(OnReadyRuns) <= 1

(* C19 (as claimed): magic-start calls start_in_place_testnet only when   *)
(* the sync run saw "indexed block events", that is, when the sync        *)
(* process was killed on the marker.                                      *)
C19_TestnetOnlyAfterMarker ==
    (cmd.name = "MagicStart" /\ \E i \in DOMAIN trace : trace[i] = Call("start_in_place_testnet"))
        => Killed(1)

Unreaped == {p \in DOMAIN procs : procs[p].state # "reaped"}

(* C20: within one command at most one spawned node process is not yet    *)
(* waited for, and it is the latest one: a process is spawned only after  *)
(* the wait on the previous one has succeeded.                            *)
C20_OneProcessAtATime ==
    /\ Cardinality(Unreaped) <= 1
    /\ Unreaped \subseteq {Len(procs)}
    /\ \A p \in DOMAIN procs : \A i \in AtOk("spawn", p) :
          p > 1 => \E w \in AtOk("wait", p - 1) : w < i

C20_Witness ==
    /\ cmd.name = "MagicStart"
    /\ Len(procs) = 3
    /\ procs[3].state = "running"
    /\ Len(seen) = 1

(* ------------------------- pipeline properties ------------------------- *)
TraceHas(ev) == \E i \in DOMAIN trace : trace[i].ev = ev

(* C9: when the snapshot response declares no content length the download *)
(* fails there: no temporary file is created, nothing is written to it,   *)
(* no chunk is read and extraction is not attempted.                       *)
C9_NoContentLengthFailsEarly ==
    dl.content_length = "none" =>
        /\ Ended /\ result = "Err"
        /\ dl.temp_file = "none" /\ dl.temp = <<>> /\ dl.chunks = 0
        /\ dl.extract = "no"
        /\ ~TraceHas("tempfile") /\ ~TraceHas("extract")

C9_Witness ==
    /\ dl.content_length = "none"
    /\ Ended /\ result = "Err"
    /\ TraceHas("genesis")

DlOrder == <<"wipe", "init", "genesis", "fetch", "tempfile", "extract">>
DlRank(ev) == CHOOSE k \in DOMAIN DlOrder : DlOrder[k] = ev
DlSteps ==
    {i \in DOMAIN trace : trace[i].fn = "download_mainnet_state"
                          /\ trace[i].ev \in {DlOrder[k] : k \in DOMAIN DlOrder}}
DataAt(p) == {e.data : e \in {x \in fs : x.path = p /\ x.kind = "file"}}
InTemp(id) == \E k \in DOMAIN dl.temp : dl.temp[k] = id

(* C11: the steps of download_mainnet_state happen in the order wipe,     *)
(* init, genesis, fetch, temporary file, extract; extraction is preceded  *)
(* by a completed init and by the write of the fetched genesis, so after  *)
(* a successful extraction the genesis file holds the archive's entry     *)
(* when the archive has one and the fetched genesis otherwise.            *)
C11_DownloadOrder ==
    /\ \A i \in DlSteps, j \in DlSteps :
          i < j => DlRank(trace[i].ev) < DlRank(trace[j].ev)
    /\ \A i \in DlSteps :
          trace[i].ev = "extract" =>
             /\ \E j \in DlSteps : j < i /\ trace[j].ev = "init"
             /\ \E j \in DlSteps : j < i /\ trace[j].ev = "genesis" /\ trace[j].rc = "Ok"
    /\ \A i \in DlSteps :
          trace[i].ev = "genesis" => \E j \in DlSteps : j < i /\ trace[j].ev = "init"
    /\ dl.extract = "done" =>
          /\ DataAt(GenesisPath) = IF InTemp("genesis") THEN {<<2>>} ELSE {<<1>>}
          /\ InTemp("state") => DataAt(StatePath) = {<<3>>}

C11_Witness ==
    /\ dl.extract = "done"
    /\ InTemp("genesis")
    /\ \E i \in DlSteps : trace[i].ev = "wipe"
    /\ DataAt(GenesisPath) = {<<2>>}

RECURSIVE Sum(_)
Sum(q) == IF q = <<>> THEN 0 ELSE q[1] + Sum(Tail(q))

DlPcs == {"dl:wipe", "dl:init", "dl:genesis", "dl:url", "dl:fetch", "dl:tempfile",
          "dl:chunk", "dl:extract", "done"}

(* C15: the received-bytes counter always equals the sum of the lengths   *)
(* of the chunks received so far and never decreases during the download, *)
(* and the chunk loop is left for the extraction only when the stream has *)
(* signalled its end, whatever the counter and the declared total are.    *)
C15_DownloadEndsAtEndOfStream ==
    /\ [](/\ dl.downloaded_bytes = Sum(dl.received)
          /\ Len(dl.temp) <= dl.downloaded_bytes
          /\ (pc = "dl:extract" \/ dl.extract # "no") => dl.stream_end)
    /\ [][/\ pc' \in DlPcs => dl'.downloaded_bytes >= dl.downloaded_bytes
          /\ (pc = "dl:chunk" /\ pc' = "dl:extract") => dl'.stream_end]_vars

C15_Witness ==
    /\ pc = "dl:chunk"
    /\ Len(dl.received) = 2
    /\ dl.total_size >= 1
    /\ dl.received[1] >= dl.total_size

(* ------------------------- magic-start sequencing ---------------------- *)
Calls == SelectSeq(trace, LAMBDA e : e.ev = "call")
CalledFns == [i \in DOMAIN Calls |-> Calls[i].fn]

MagicOrder ==
    <<IF cmd.download_mainnet_state THEN "download_mainnet_state" ELSE "restore",
      "start_sync", "start_in_place_testnet", "start_standalone">>

(* C10: magic-start calls (download or restore), start_sync and            *)
(* start_in_place_testnet in this order; each later stage is called right  *)
(* after the previous one returned Ok; nothing is called or spawned after  *)
(* a stage returned Err; the sync run has the stop flag on; and the        *)
(* testnet process is spawned only after the sync process was waited for.  *)
C10_MagicStartOrder ==
    cmd.name = "MagicStart" =>
        /\ Len(CalledFns) <= 4 /\ CalledFns = SubSeq(MagicOrder, 1, Len(CalledFns))
        /\ \A i \in DOMAIN trace :
              /\ trace[i] = Call("start_sync") => i > 1 /\ trace[i - 1] = Ret(MagicOrder[1], "Ok")
              /\ trace[i] = Call("start_in_place_testnet") =>
                    i > 1 /\ trace[i - 1] = Ret("start_sync", "Ok")
              /\ (trace[i].ev = "ret" /\ trace[i].rc = "Err") =>
                    \A j \in DOMAIN trace : j > i => trace[j].ev = "ret" /\ trace[j].rc = "Err"
              /\ (trace[i].ev = "spawn" /\ trace[i].fn = "start_in_place_testnet") =>
                    /\ trace[i].rc = "Ok" => trace[i].proc = 2
                    /\ procs[1].fn = "start_sync"
                    /\ procs[1].state = "reaped"
                    /\ \E w \in AtOk("wait", 1) : w < i
        /\ InRun("start_sync") => stop_flag
        /\ (InRun("start_sync") /\ Matches(ReadyMarker) # {}) => Killed(child)
        /\ (Ended /\ result = "Ok") => "start_in_place_testnet" \in {CalledFns[i] : i \in DOMAIN CalledFns}

C10_Witness ==
    /\ cmd.name = "MagicStart" /\ cmd.download_mainnet_state
    /\ Ended /\ result = "Ok"
    /\ Len(procs) = 3

(* ------------------------ directory properties ------------------------- *)
Outside(f, p) == {e \in f : ~starts_with(e.path, p)}

RestoreMissingSource == last.op = "restore" /\ ~exists(last.pre, last.src)

(* C6 (as claimed): a restore whose backup directory does not exist fails  *)
(* and leaves a pre-existing home directory untouched.                     *)
C6_RestoreMissingKeepsDest ==
    RestoreMissingSource =>
        /\ last.rc # "Ok"
        /\ Subtree(fs, last.dst) = Subtree(last.pre, last.dst)

(* C6 (amended): a restore whose backup directory does not exist fails     *)
(* with the copy's not-found error; the removal of the home directory is   *)
(* not gated on the backup existing, so after the failure the home         *)
(* directory no longer exists, and nothing else has changed.               *)
C6_RestoreMissingRemovesDest ==
    RestoreMissingSource =>
        /\ last.rc = "NotFound"
        /\ ~exists(fs, last.dst)
        /\ Outside(fs, last.dst) = Outside(last.pre, last.dst)

C6_Witness ==
    /\ RestoreMissingSource
    /\ Cardinality(Subtree(last.pre, last.dst)) > 1
    /\ last.rc = "NotFound"

BackupThenRestore ==
    /\ prev.op = "backup" /\ prev.rc = "Ok"
    /\ last.op = "restore" /\ last.src = prev.dst
    /\ last.dst # last.src

(* C7: a successful backup of D to B followed immediately by a restore of  *)
(* B into a target T other than B succeeds and leaves under T exactly the  *)
(* entries (names, kinds, bytes) that D had, at the same relative paths,   *)
(* whether or not B and T existed before.                                  *)
C7_BackupRestoreRoundTrip ==
    BackupThenRestore =>
        /\ last.rc = "Ok"
        /\ exists(prev.pre, prev.src)
        /\ Subtree(fs, last.dst) = Subtree(prev.pre, prev.src)

C7_Witness ==
    /\ BackupThenRestore
    /\ last.rc = "Ok"
    /\ exists(prev.pre, prev.dst)
    /\ exists(last.pre, last.dst)
    /\ last.dst # prev.src
    /\ \E e \in Subtree(fs, last.dst) : Len(e.path) = 2 /\ e.kind = "file" /\ e.data = <<>>

BackupOverOld ==
    last.op = "backup" /\ last.rc = "Ok" /\ exists(last.pre, last.dst)

(* C8: after a successful backup onto a path that already held a backup,   *)
(* the backup path holds exactly the contents of the home directory and    *)
(* the home directory is unchanged.                                        *)
C8_BackupReplacesOld ==
    BackupOverOld =>
        /\ Subtree(fs, last.dst) = Subtree(last.pre, last.src)
        /\ Subtree(fs, last.src) = Subtree(last.pre, last.src)

C8_Witness ==
    /\ BackupOverOld
    /\ \E e \in Subtree(last.pre, last.dst) : e \notin Subtree(last.pre, last.src)
    /\ Cardinality(Subtree(fs, last.dst)) > 1

====
